---- MODULE Spec2Model ----
(***************************************************************************)
(* Model of main.py of the multiverse matrix bot: the asyncio event loop   *)
(* that runs the niobot callbacks on_ready, on_command, on_command_error,  *)
(* on_message and on_room_member, and the background task                  *)
(* arxiv_maintenance_task.  A callback runs atomically from one await to   *)
(* the next; the collaborators (autonomous_chat, bot.send_message,         *)
(* process_url, ctx.respond, the auto-poster) are the environment and      *)
(* answer each await by returning a value or raising.                      *)
(*                                                                         *)
(* Instants are milliseconds (the unit of server_timestamp); the clock is  *)
(* sampled at whole milliseconds.                                          *)
(***************************************************************************)
EXTENDS Integers, Sequences, FiniteSets, Bags, TLC

(* ------------------------------ bounds -------------------------------- *)

\* Handler coroutines that may be suspended at an await at the same time.
MaxHandlers == 1

\* Ready signals the host SDK delivers in one run.
MaxReady == 2

(* ------------------------- program constants -------------------------- *)

\* server_timestamp / 1000
MsPerSecond == 1000

\* (now - message_time).total_seconds() > 300
SyncWindowSeconds == 300

\* (now - message_time).total_seconds() > 3600
FallbackWindowSeconds == 3600

SyncWindow == SyncWindowSeconds * MsPerSecond
FallbackWindow == FallbackWindowSeconds * MsPerSecond

\* bot_config.USER_ID
USER_ID == "@bot:hs"

(* ------------------------------ inputs -------------------------------- *)

\* The instant of process start, and the instants at which the clock is read:
\* at process start, and when the process is just older than the long window.
StartInstant == 2 * FallbackWindow
Instants == {StartInstant, StartInstant + FallbackWindow + 1}

Rooms == {"!a:hs", "!b:hs"}
Senders == {USER_ID, "@alice:hs"}

\* Message bodies, as sequences of characters; a character is its Unicode
\* code point.
Bodies == <<
  \* "no url here http:/x HTTP://y"
  <<110, 111, 32, 117, 114, 108, 32, 104, 101, 114, 101, 32, 104, 116, 116,
    112, 58, 47, 120, 32, 72, 84, 84, 80, 58, 47, 47, 121>>,
  \* "xhttp://a out\n\thttps://e.com/p\fhttp://c thanks" and a no-break space
  <<120, 104, 116, 116, 112, 58, 47, 47, 97, 32, 111, 117, 116, 10, 9, 104,
    116, 116, 112, 115, 58, 47, 47, 101, 46, 99, 111, 109, 47, 112, 12, 104,
    116, 116, 112, 58, 47, 47, 99, 32, 116, 104, 97, 110, 107, 115, 160>>
>>
BodyIds == 1 .. Len(Bodies)

\* server_timestamp of an event: the attribute is absent, is None, or is an
\* integer number of milliseconds.
NoAttr == [attr |-> "absent", ms |-> 0]
NoneTs == [attr |-> "None", ms |-> 0]
IntTs(n) == [attr |-> "int", ms |-> n]

\* The timestamps an event may carry when the clock reads n: no usable one,
\* one from just before the process started, and one of each age at either
\* side of the two windows that is no older than the process.
Ages == {0, SyncWindow, SyncWindow + 1, FallbackWindow, FallbackWindow + 1}
Timestamps(n) ==
  {NoAttr, NoneTs, IntTs(0), IntTs(StartInstant - 1)}
    \cup {IntTs(n - a) : a \in {b \in Ages : n - b >= StartInstant}}

\* The message events delivered when the clock reads n: a fresh message of
\* another user without a URL in one room and one with URLs in the other, a
\* fresh message of the bot, and a message with URLs of every sender of
\* senders and every timestamp of stamps.
Messages(n, senders, stamps) ==
  {[room |-> "!b:hs", sender |-> "@alice:hs", body |-> 1, ts |-> IntTs(n)],
   [room |-> "!a:hs", sender |-> "@alice:hs", body |-> Len(Bodies), ts |-> IntTs(n)]}
    \cup {[room |-> "!a:hs", sender |-> USER_ID, body |-> Len(Bodies),
           ts |-> IntTs(n)]}
    \cup {[room |-> "!a:hs", sender |-> s, body |-> Len(Bodies), ts |-> t] :
            s \in senders, t \in stamps}

\* What autonomous_chat.handle_message may return: None, a string, a dict,
\* or an object of another type, here a list.  len is the length of the
\* string or of the list and the number of keys of the dict; text and
\* thread_info are what .get() gives for a dict: None, for a key that is
\* absent or None, or the value (for thread_info a dict without event_id or
\* one that names the parent event).  The dict of one key with neither text
\* nor thread_info is {'text': None}.
Text == "hello"
EventId == "$parent"
NoValue == "None"
Keys(text, thread_info) ==
  (IF text = NoValue THEN 0 ELSE 1) + (IF thread_info = NoValue THEN 0 ELSE 1)
Responses ==
  {[type |-> "None", text |-> NoValue, thread_info |-> NoValue, len |-> 0]}
    \cup {[type |-> "list", text |-> NoValue, thread_info |-> NoValue, len |-> n] :
            n \in {0, 1}}
    \cup {[type |-> "str", text |-> t, thread_info |-> NoValue,
            len |-> IF t = "" THEN 0 ELSE 5] : t \in {"", Text}}  \* len("hello")
    \cup {[type |-> "dict", text |-> t, thread_info |-> i, len |-> Keys(t, i)] :
            t \in {NoValue, "", Text},
            i \in {NoValue, "{}", EventId}}
    \cup {[type |-> "dict", text |-> NoValue, thread_info |-> NoValue, len |-> 1]}

(* --------------------------- pure functions --------------------------- *)

\* str.split(): the maximal runs of non-whitespace characters, in order.
\* Whitespace is the characters for which str.isspace() is true: U+0009 to
\* U+000D, U+001C to U+001F, U+0020, U+0085, U+00A0, U+1680, U+2000 to
\* U+200A, U+2028, U+2029, U+202F, U+205F and U+3000.
Whitespace ==
  (9 .. 13) \cup (28 .. 32) \cup {133, 160, 5760} \cup (8192 .. 8202)
    \cup {8232, 8233, 8239, 8287, 12288}

RECURSIVE SplitFrom(_, _, _)
SplitFrom(s, i, word) ==
  IF i > Len(s)
  THEN IF word = <<>> THEN <<>> ELSE <<word>>
  ELSE IF s[i] \in Whitespace
       THEN IF word = <<>>
            THEN SplitFrom(s, i + 1, <<>>)
            ELSE <<word>> \o SplitFrom(s, i + 1, <<>>)
       ELSE SplitFrom(s, i + 1, Append(word, s[i]))

split(s) == SplitFrom(s, 1, <<>>)

\* word.startswith(prefix)
startswith(word, prefix) ==
  /\ Len(word) >= Len(prefix)
  /\ SubSeq(word, 1, Len(prefix)) = prefix

\* "http://" and "https://"
HttpPrefix == <<104, 116, 116, 112, 58, 47, 47>>
HttpsPrefix == <<104, 116, 116, 112, 115, 58, 47, 47>>

IsUrlWord(word) == startswith(word, HttpPrefix) \/ startswith(word, HttpsPrefix)

\* next((word for word in body.split() if word.startswith(...)), None);
\* None is the empty sequence, which no word of split() equals.
NoUrl == <<>>

\* Mutant of first_url: the last matching word is taken.
first_url_last(body) ==
  LET words == split(body)
      hits == {i \in 1 .. Len(words) : IsUrlWord(words[i])}
  IN IF hits = {} THEN NoUrl
     ELSE words[CHOOSE i \in hits : \A j \in hits : i >= j]

first_url(body) ==
  LET words == split(body)
      hits == {i \in 1 .. Len(words) : IsUrlWord(words[i])}
  IN IF hits = {} THEN NoUrl
     ELSE words[CHOOSE i \in hits : \A j \in hits : i <= j]

\* first_url of each body of Bodies, tabulated.
url_of == [b \in 1 .. Len(Bodies) |-> first_url(Bodies[b])]

\* datetime.fromtimestamp(getattr(message, 'server_timestamp', 0) / 1000):
\* defined unless the attribute is None, where the division raises TypeError.
message_time(ts) == IF ts.attr = "int" THEN ts.ms ELSE 0

\* not getattr(message, 'server_timestamp', None)
no_timestamp(ts) == ts.attr # "int" \/ ts.ms = 0

\* Mutant of is_stale: the check against the startup time is missing.
is_stale_no_floor(ts, nowRead, startup, synced) ==
  \/ no_timestamp(ts)
  \/ ~synced /\ nowRead - message_time(ts) > SyncWindow
  \/ nowRead - message_time(ts) > FallbackWindow

\* Mutant of is_stale: the short window excludes its boundary.
is_stale_sync_inclusive(ts, nowRead, startup, synced) ==
  \/ no_timestamp(ts)
  \/ message_time(ts) < startup
  \/ ~synced /\ nowRead - message_time(ts) >= SyncWindow
  \/ nowRead - message_time(ts) > FallbackWindow

\* Mutant of is_stale: the short window applies after the ready signal too.
is_stale_always_sync(ts, nowRead, startup, synced) ==
  \/ no_timestamp(ts)
  \/ message_time(ts) < startup
  \/ nowRead - message_time(ts) > SyncWindow
  \/ nowRead - message_time(ts) > FallbackWindow

\* Lines 211-232: the staleness checks, for the values on_message has read.
is_stale(ts, nowRead, startup, synced) ==
  \/ no_timestamp(ts)
  \/ message_time(ts) < startup
  \/ ~synced /\ nowRead - message_time(ts) > SyncWindow
  \/ nowRead - message_time(ts) > FallbackWindow

\* Mutant of verdict_of: the sender is not compared with the bot's user id.
verdict_of_no_self(ts, sender, nowRead, startup, synced) ==
  IF ts.attr = "None" THEN "raised"
  ELSE IF is_stale(ts, nowRead, startup, synced) THEN "discard"
  ELSE "accept"

\* Lines 199-237: how on_message ends before the autonomous chat step, if it
\* does: by the TypeError of None / 1000, as stale, or as the bot's own message.
verdict_of(ts, sender, nowRead, startup, synced) ==
  IF ts.attr = "None" THEN "raised"
  ELSE IF is_stale(ts, nowRead, startup, synced) THEN "discard"
  ELSE IF sender = USER_ID THEN "own"
  ELSE "accept"

\* if autonomous_response: None is false, and a string, a dict and a list
\* are false exactly when they are empty.
truthy(resp) ==
  CASE resp.type = "None" -> FALSE
    [] resp.type \in {"str", "dict", "list"} -> resp.len > 0

(* ------------------------------- state -------------------------------- *)

VARIABLES
  now,                    \* datetime.now(timezone.utc), the wall clock
  BOT_STARTUP_TIME,       \* module global, line 60
  INITIAL_SYNC_COMPLETE,  \* module global, line 63
  arxiv_auto_poster,      \* bot.arxiv_auto_poster: "missing", "disabled", "enabled"
  spontaneous,            \* periodic_spontaneous_check tasks created so far
  maintenance,            \* the arxiv_maintenance_task tasks: "created", "cycle",
                          \* "sleep" or "returned" for each one
  handlers,               \* the handler coroutines suspended at an await (a bag)
  ran                     \* what the callback that ran in the last step did

vars == <<now, BOT_STARTUP_TIME, INITIAL_SYNC_COMPLETE, arxiv_auto_poster,
          spontaneous, maintenance, handlers, ran>>

\* One call made by a handler: the function, its arguments, and how it ended
\* ("pending" while the handler is suspended in it).
Call(fn, room, text, event_id, url, res) ==
  [fn |-> fn, room |-> room, text |-> text, event_id |-> event_id,
   url |-> url, res |-> res]

\* autonomous_response outside the step in which handle_message returns it:
\* it is read in lines 242-252 only, before the next await.
NoResponse == [type |-> "", text |-> NoValue, thread_info |-> NoValue, len |-> 0]

\* A suspended handler: the callback, the await it is in, its locals and the
\* calls it has made.
Handler(op, pc, room, sender, body, calls) ==
  [op |-> op, pc |-> pc, room |-> room, sender |-> sender, body |-> body,
   response |-> NoResponse, text |-> "", url |-> NoUrl, calls |-> calls]

\* Nothing to report: the step was not a callback that reached a verdict.
Quiet ==
  [op |-> "", ts |-> NoAttr, sender |-> "", room |-> "", body |-> 0,
   response |-> NoResponse, verdict |-> "", calls |-> <<>>]

\* The last call of a trace ends with result res.
Ended(calls, res) == [calls EXCEPT ![Len(calls)].res = res]

Suspended == BagToSet(handlers)

Init ==
  /\ now = StartInstant
  /\ BOT_STARTUP_TIME = StartInstant
  /\ INITIAL_SYNC_COMPLETE = FALSE
  /\ arxiv_auto_poster \in {"missing", "disabled", "enabled"}
  /\ spontaneous = 0
  /\ maintenance = <<>>
  /\ handlers = EmptyBag
  /\ ran = Quiet

(* ------------------------------- clock -------------------------------- *)

Tick ==
  /\ \E n \in Instants : n > now /\ now' = n
  /\ ran' = Quiet
  /\ UNCHANGED <<BOT_STARTUP_TIME, INITIAL_SYNC_COMPLETE, arxiv_auto_poster,
                 spontaneous, maintenance, handlers>>

(* ------------------------------ on_ready ------------------------------ *)

\* auto_poster and auto_poster.enabled
poster_enabled == arxiv_auto_poster = "enabled"

\* Mutant of on_ready: the flag is flipped, not set.
on_ready_flips ==
  /\ spontaneous < MaxReady
  /\ INITIAL_SYNC_COMPLETE' = ~INITIAL_SYNC_COMPLETE
  /\ spontaneous' = spontaneous + 1
  /\ maintenance' = IF poster_enabled THEN Append(maintenance, "created")
                    ELSE maintenance
  /\ ran' = [Quiet EXCEPT !.op = "on_ready", !.verdict = "done"]
  /\ UNCHANGED <<now, BOT_STARTUP_TIME, arxiv_auto_poster, handlers>>

\* Lines 116-135.  create_task only schedules arxiv_maintenance_task: the
\* event loop runs its first step later.
on_ready ==
  /\ spontaneous < MaxReady
  /\ INITIAL_SYNC_COMPLETE' = TRUE
  /\ spontaneous' = spontaneous + 1
  /\ maintenance' = IF poster_enabled THEN Append(maintenance, "created")
                    ELSE maintenance
  /\ ran' = [Quiet EXCEPT !.op = "on_ready", !.verdict = "done"]
  /\ UNCHANGED <<now, BOT_STARTUP_TIME, arxiv_auto_poster, handlers>>

(* ----------------------------- on_message ----------------------------- *)

\* The handler returns (or ends by raising): the step reports the calls it
\* made.  rest is the bag of the other suspended handlers.
Return(rest, rec, verdict) ==
  /\ handlers' = rest
  /\ ran' = [Quiet EXCEPT !.op = rec.op, !.sender = rec.sender,
                          !.room = rec.room, !.body = rec.body,
                          !.response = rec.response,
                          !.verdict = verdict, !.calls = rec.calls]

\* The handler suspends at its next await; the step in which handle_message
\* returned reports the response and the calls made so far.
Suspend(rest, rec) ==
  /\ handlers' = rest (+) SetToBag({[rec EXCEPT !.response = NoResponse]})
  /\ ran' = IF rec.response = NoResponse THEN Quiet
            ELSE [Quiet EXCEPT !.op = rec.op, !.sender = rec.sender,
                               !.room = rec.room, !.body = rec.body,
                               !.response = rec.response,
                               !.verdict = "answered", !.calls = rec.calls]

\* The suspended handlers other than rec.
Others(rec) == handlers (-) SetToBag({rec})

\* Lines 281-296: the URL scan, up to the await of process_url.
url_scan(rest, rec) ==
  LET url == url_of[rec.body] IN
  IF url = NoUrl
  THEN Return(rest, rec, "done")
  ELSE Suspend(rest, [rec EXCEPT
         !.pc = "process_url",
         !.url = url,
         !.calls = @ \o <<Call("log_bot_action", rec.room, "Processing URL", "", url, "ok"),
                          Call("process_url", "", "", "", url, "pending")>>])

\* Mutant of send_message: process_url is started together with the send.
send_message_with_url(rest, rec, text) ==
  Suspend(rest, [rec EXCEPT
    !.pc = "send_message",
    !.text = text,
    !.calls = @ \o <<Call("send_message", rec.room, text, "", NoUrl, "pending"),
                     Call("process_url", "", "", "", url_of[rec.body], "pending")>>])

\* await bot.send_message(room.room_id, text), lines 248, 267 and 273.
send_message(rest, rec, text) ==
  Suspend(rest, [rec EXCEPT
    !.pc = "send_message",
    !.text = text,
    !.calls = Append(@, Call("send_message", rec.room, text, "", NoUrl, "pending"))])

\* Mutant of on_message: the handler is suspended before the staleness
\* checks, which the dispatch step does not run.
on_message_deferred(room, message) ==
  /\ BagCardinality(handlers) < MaxHandlers
  /\ Suspend(handlers,
       Handler("on_message", "handle_message", room, message.sender, message.body,
               <<Call("log_message", room, "", "", NoUrl, "ok"),
                 Call("handle_message", room, "", "", NoUrl, "pending")>>))
  /\ UNCHANGED <<now, BOT_STARTUP_TIME, INITIAL_SYNC_COMPLETE,
                 arxiv_auto_poster, spontaneous, maintenance>>

\* Lines 171-241: the message is logged, the staleness checks run, and an
\* accepted message of another user reaches the await of handle_message.
on_message(room, message) ==
  LET verdict == verdict_of(message.ts, message.sender, now, BOT_STARTUP_TIME,
                            INITIAL_SYNC_COMPLETE)
      logged == <<Call("log_message", room, "", "", NoUrl, "ok")>>
      calls == IF verdict = "accept"
               THEN Append(logged, Call("handle_message", room, "", "", NoUrl, "pending"))
               ELSE logged
  IN /\ IF verdict = "accept"
        THEN /\ BagCardinality(handlers) < MaxHandlers
             /\ handlers' = handlers (+) SetToBag({
                  Handler("on_message", "handle_message", room, message.sender,
                          message.body, calls)})
        ELSE handlers' = handlers
     /\ ran' = [Quiet EXCEPT !.op = "on_message", !.ts = message.ts,
                             !.sender = message.sender, !.room = room,
                             !.body = message.body, !.verdict = verdict,
                             !.calls = calls]
     /\ UNCHANGED <<now, BOT_STARTUP_TIME, INITIAL_SYNC_COMPLETE,
                    arxiv_auto_poster, spontaneous, maintenance>>

\* Mutant of handle_message_returns: a structured reply is sent whether or
\* not it has a text.
handle_message_returns_sends_empty(h, resp) ==
  /\ h.pc = "handle_message"
  /\ LET rec == [h EXCEPT !.response = resp, !.calls = Ended(@, "ok")] IN
     IF ~truthy(resp) THEN url_scan(Others(h), rec)
     ELSE IF resp.type = "str" THEN send_message(Others(h), rec, resp.text)
     ELSE IF resp.type = "dict"
     THEN IF resp.thread_info = EventId
          THEN Suspend(Others(h), [rec EXCEPT
                 !.pc = "send_threaded",
                 !.text = resp.text,
                 !.calls = Append(@, Call("_send_threaded_message", rec.room,
                                          resp.text, EventId, NoUrl, "pending"))])
          ELSE send_message(Others(h), rec, resp.text)
     ELSE url_scan(Others(h), rec)
  /\ UNCHANGED <<now, BOT_STARTUP_TIME, INITIAL_SYNC_COMPLETE,
                 arxiv_auto_poster, spontaneous, maintenance>>

\* Lines 241-275: handle_message returns resp.
handle_message_returns(h, resp) ==
  /\ h.pc = "handle_message"
  /\ LET rec == [h EXCEPT !.response = resp, !.calls = Ended(@, "ok")] IN
     IF ~truthy(resp) THEN url_scan(Others(h), rec)
     ELSE IF resp.type = "str" THEN send_message(Others(h), rec, resp.text)
     ELSE IF resp.type = "dict"
     THEN IF resp.text \in {NoValue, ""} THEN url_scan(Others(h), rec)
          ELSE IF resp.thread_info = EventId
          THEN Suspend(Others(h), [rec EXCEPT
                 !.pc = "send_threaded",
                 !.text = resp.text,
                 !.calls = Append(@, Call("_send_threaded_message", rec.room,
                                          resp.text, EventId, NoUrl, "pending"))])
          ELSE send_message(Others(h), rec, resp.text)
     ELSE url_scan(Others(h), rec)
  /\ UNCHANGED <<now, BOT_STARTUP_TIME, INITIAL_SYNC_COMPLETE,
                 arxiv_auto_poster, spontaneous, maintenance>>

\* Mutant of send_threaded_returns: a failed threaded send has no fallback.
send_threaded_returns_no_fallback(h, success) ==
  /\ h.pc = "send_threaded"
  /\ url_scan(Others(h),
       [h EXCEPT !.calls = Ended(@, IF success THEN "True" ELSE "False")])
  /\ UNCHANGED <<now, BOT_STARTUP_TIME, INITIAL_SYNC_COMPLETE,
                 arxiv_auto_poster, spontaneous, maintenance>>

\* Mutant of send_threaded_returns: the text is sent as a plain message
\* after the threaded send, whatever it reported.
send_threaded_returns_always_sends(h, success) ==
  /\ h.pc = "send_threaded"
  /\ send_message(Others(h),
       [h EXCEPT !.calls = Ended(@, IF success THEN "True" ELSE "False")], h.text)
  /\ UNCHANGED <<now, BOT_STARTUP_TIME, INITIAL_SYNC_COMPLETE,
                 arxiv_auto_poster, spontaneous, maintenance>>

\* Lines 261-269: the threaded send reports success or failure.
send_threaded_returns(h, success) ==
  /\ h.pc = "send_threaded"
  /\ LET rec == [h EXCEPT !.calls = Ended(@, IF success THEN "True" ELSE "False")] IN
     IF ~success THEN send_message(Others(h), rec, rec.text)
     ELSE url_scan(Others(h), rec)
  /\ UNCHANGED <<now, BOT_STARTUP_TIME, INITIAL_SYNC_COMPLETE,
                 arxiv_auto_poster, spontaneous, maintenance>>

\* Mutant of send_message_returns: a message that was answered is not
\* scanned for a URL.
send_message_returns_only(h) ==
  /\ h.pc = "send_message"
  /\ Return(Others(h), [h EXCEPT !.calls = Ended(@, "ok")], "done")
  /\ UNCHANGED <<now, BOT_STARTUP_TIME, INITIAL_SYNC_COMPLETE,
                 arxiv_auto_poster, spontaneous, maintenance>>

\* bot.send_message returns.
send_message_returns(h) ==
  /\ h.pc = "send_message"
  /\ url_scan(Others(h), [h EXCEPT !.calls = Ended(@, "ok")])
  /\ UNCHANGED <<now, BOT_STARTUP_TIME, INITIAL_SYNC_COMPLETE,
                 arxiv_auto_poster, spontaneous, maintenance>>

\* Mutant of autonomous_chat_raises: the exception leaves on_message.
autonomous_chat_raises_propagates(h) ==
  /\ h.pc \in {"handle_message", "send_threaded", "send_message"}
  /\ Return(Others(h), [h EXCEPT !.calls = Ended(@, "raised")], "raised")
  /\ UNCHANGED <<now, BOT_STARTUP_TIME, INITIAL_SYNC_COMPLETE,
                 arxiv_auto_poster, spontaneous, maintenance>>

\* Lines 276-279: handle_message, the threaded send or bot.send_message
\* raises an Exception; it is logged and the URL scan follows.
autonomous_chat_raises(h) ==
  /\ h.pc \in {"handle_message", "send_threaded", "send_message"}
  /\ url_scan(Others(h), [h EXCEPT !.calls = Ended(@, "raised")])
  /\ UNCHANGED <<now, BOT_STARTUP_TIME, INITIAL_SYNC_COMPLETE,
                 arxiv_auto_poster, spontaneous, maintenance>>

\* Lines 296-301.
process_url_returns(h) ==
  /\ h.pc = "process_url"
  /\ Return(Others(h), [h EXCEPT !.calls = Append(Ended(@, "ok"),
        Call("log_bot_action", h.room, "Successfully processed URL", "",
             h.url, "ok"))], "done")
  /\ UNCHANGED <<now, BOT_STARTUP_TIME, INITIAL_SYNC_COMPLETE,
                 arxiv_auto_poster, spontaneous, maintenance>>

\* Mutant of process_url_raises: the caught failure resets the sync flag.
process_url_raises_resets(h) ==
  /\ h.pc = "process_url"
  /\ Return(Others(h), [h EXCEPT !.calls = Append(Ended(@, "raised"),
        Call("log_bot_action", h.room, "Failed to process URL", "",
             h.url, "ok"))], "done")
  /\ INITIAL_SYNC_COMPLETE' = FALSE
  /\ UNCHANGED <<now, BOT_STARTUP_TIME, arxiv_auto_poster, spontaneous, maintenance>>

\* Lines 302-308.
process_url_raises(h) ==
  /\ h.pc = "process_url"
  /\ Return(Others(h), [h EXCEPT !.calls = Append(Ended(@, "raised"),
        Call("log_bot_action", h.room, "Failed to process URL", "",
             h.url, "ok"))], "done")
  /\ UNCHANGED <<now, BOT_STARTUP_TIME, INITIAL_SYNC_COMPLETE,
                 arxiv_auto_poster, spontaneous, maintenance>>

(* ---------------------- on_command, on_command_error ------------------ *)

\* Lines 138-153: the command is logged as a bot action.
on_command(room) ==
  /\ ran' = [Quiet EXCEPT
       !.op = "on_command", !.room = room, !.verdict = "done",
       !.calls = <<Call("log_bot_action", room, "Command executed", "", NoUrl, "ok")>>]
  /\ UNCHANGED <<now, BOT_STARTUP_TIME, INITIAL_SYNC_COMPLETE,
                 arxiv_auto_poster, spontaneous, maintenance, handlers>>

\* Lines 156-158: up to the await of ctx.respond.
on_command_error(room) ==
  /\ BagCardinality(handlers) < MaxHandlers
  /\ Suspend(handlers, Handler("on_command_error", "respond", room, "", 0,
       <<Call("respond", room, "An error occurred", "", NoUrl, "pending")>>))
  /\ UNCHANGED <<now, BOT_STARTUP_TIME, INITIAL_SYNC_COMPLETE,
                 arxiv_auto_poster, spontaneous, maintenance>>

\* Lines 159-167: ctx.respond returned; the error is logged as a bot action.
respond_returns(h) ==
  /\ h.pc = "respond"
  /\ Return(Others(h), [h EXCEPT !.calls = Append(Ended(@, "ok"),
        Call("log_bot_action", h.room, "Command error", "", NoUrl, "ok"))],
        "done")
  /\ UNCHANGED <<now, BOT_STARTUP_TIME, INITIAL_SYNC_COMPLETE,
                 arxiv_auto_poster, spontaneous, maintenance>>

\* ctx.respond raises: nothing in on_command_error catches it.
respond_raises(h) ==
  /\ h.pc = "respond"
  /\ Return(Others(h), [h EXCEPT !.calls = Ended(@, "raised")], "raised")
  /\ UNCHANGED <<now, BOT_STARTUP_TIME, INITIAL_SYNC_COMPLETE,
                 arxiv_auto_poster, spontaneous, maintenance>>

(* --------------------------- on_room_member --------------------------- *)

\* Lines 331-354: what happened to the member.
description(membership, prev_membership, by_self, displayname, prev_displayname, avatar_changed) ==
  IF prev_membership # membership
  THEN CASE membership = "join" ->
              IF prev_membership = "invite"
              THEN "accepted invitation and joined the room"
              ELSE "joined the room"
         [] membership = "leave" ->
              IF by_self THEN "left the room"
              ELSE "was removed from the room by"
         [] membership = "invite" -> "was invited to the room by"
         [] membership = "ban" -> "was banned from the room by"
         [] OTHER -> "membership changed to"
  ELSE IF displayname # prev_displayname /\ displayname # "" /\ prev_displayname # ""
  THEN "changed display name"
  ELSE IF avatar_changed THEN "changed their avatar"
  ELSE "updated their profile"

\* Lines 312-363: the membership event is logged as a room event.
on_room_member(room, event) ==
  /\ ran' = [Quiet EXCEPT
       !.op = "on_room_member", !.room = room, !.verdict = "done",
       !.calls = <<Call("log_room_event", room,
                        description(event[1], event[2], event[3], event[4],
                                    event[5], event[6]),
                        "", NoUrl, "ok")>>]
  /\ UNCHANGED <<now, BOT_STARTUP_TIME, INITIAL_SYNC_COMPLETE,
                 arxiv_auto_poster, spontaneous, maintenance, handlers>>

\* Membership events: a removal by someone else and a changed display name.
MemberEvents ==
  {<<"leave", "join", FALSE, "Al", "Al", FALSE>>,
   <<"join", "join", TRUE, "Al", "Bo", FALSE>>}

(* ----------------------- arxiv_maintenance_task ----------------------- *)

Tasks == 1 .. MaxReady

\* The auto-poster, a collaborator, is enabled or disabled by its owner.
poster_changes ==
  /\ arxiv_auto_poster # "missing"
  /\ arxiv_auto_poster' = IF poster_enabled THEN "disabled" ELSE "enabled"
  /\ ran' = Quiet
  /\ UNCHANGED <<now, BOT_STARTUP_TIME, INITIAL_SYNC_COMPLETE, spontaneous,
                 maintenance, handlers>>

\* Lines 367-376: the first step of the task.  It returns when the
\* auto-poster is missing or disabled by now, and awaits its first cycle
\* otherwise.
arxiv_maintenance_task(i) ==
  /\ i <= Len(maintenance)
  /\ maintenance[i] = "created"
  /\ maintenance' = [maintenance EXCEPT
       ![i] = IF poster_enabled THEN "cycle" ELSE "returned"]
  /\ ran' = Quiet
  /\ UNCHANGED <<now, BOT_STARTUP_TIME, INITIAL_SYNC_COMPLETE,
                 arxiv_auto_poster, spontaneous, handlers>>

\* Lines 376 and 381: run_maintenance_cycle returns; the task sleeps.
cycle_returns(i) ==
  /\ i <= Len(maintenance)
  /\ maintenance[i] = "cycle"
  /\ maintenance' = [maintenance EXCEPT ![i] = "sleep"]
  /\ ran' = Quiet
  /\ UNCHANGED <<now, BOT_STARTUP_TIME, INITIAL_SYNC_COMPLETE,
                 arxiv_auto_poster, spontaneous, handlers>>

\* Mutant of cycle_raises: the exception ends the loop.
cycle_raises_ends(i) ==
  /\ i <= Len(maintenance)
  /\ maintenance[i] = "cycle"
  /\ maintenance' = [maintenance EXCEPT ![i] = "returned"]
  /\ ran' = [Quiet EXCEPT !.op = "arxiv_maintenance_task", !.body = i,
                          !.verdict = "raised"]
  /\ UNCHANGED <<now, BOT_STARTUP_TIME, INITIAL_SYNC_COMPLETE,
                 arxiv_auto_poster, spontaneous, handlers>>

\* Lines 377-381: run_maintenance_cycle raises; the error is logged and the
\* task sleeps.
cycle_raises(i) ==
  /\ i <= Len(maintenance)
  /\ maintenance[i] = "cycle"
  /\ maintenance' = [maintenance EXCEPT ![i] = "sleep"]
  /\ ran' = [Quiet EXCEPT !.op = "arxiv_maintenance_task", !.body = i,
                          !.verdict = "raised"]
  /\ UNCHANGED <<now, BOT_STARTUP_TIME, INITIAL_SYNC_COMPLETE,
                 arxiv_auto_poster, spontaneous, handlers>>

\* Lines 381 and 374-376: asyncio.sleep(60 * 60) is over; the next cycle runs.
sleep_returns(i) ==
  /\ i <= Len(maintenance)
  /\ maintenance[i] = "sleep"
  /\ maintenance' = [maintenance EXCEPT ![i] = "cycle"]
  /\ ran' = Quiet
  /\ UNCHANGED <<now, BOT_STARTUP_TIME, INITIAL_SYNC_COMPLETE,
                 arxiv_auto_poster, spontaneous, handlers>>

(* --------------------------- specifications --------------------------- *)

\* The steps of the suspended on_message handlers.
Resume ==
  \/ \E h \in Suspended, resp \in Responses : handle_message_returns(h, resp)
  \/ \E h \in Suspended, success \in BOOLEAN : send_threaded_returns(h, success)
  \/ \E h \in Suspended : send_message_returns(h)
  \/ \E h \in Suspended : autonomous_chat_raises(h)
  \/ \E h \in Suspended : process_url_returns(h)
  \/ \E h \in Suspended : process_url_raises(h)

\* The whole event loop.
Next ==
  \/ Tick
  \/ on_ready
  \/ \E m \in Messages(now, Senders, Timestamps(now)) : on_message(m.room, m)
  \/ Resume
  \/ \E room \in Rooms : on_command(room)
  \/ \E room \in Rooms : on_command_error(room)
  \/ \E h \in Suspended : respond_returns(h)
  \/ \E h \in Suspended : respond_raises(h)
  \/ \E event \in MemberEvents : on_room_member("!a:hs", event)
  \/ poster_changes
  \/ \E i \in Tasks : arxiv_maintenance_task(i)
  \/ \E i \in Tasks : cycle_returns(i)
  \/ \E i \in Tasks : cycle_raises(i)
  \/ \E i \in Tasks : sleep_returns(i)

Spec == Init /\ [][Next]_vars

\* asyncio.sleep ends after its interval and the event loop then resumes the
\* task that awaits it.
FairSpec ==
  /\ Spec
  /\ \A i \in Tasks : WF_vars(sleep_returns(i))

(* ------------------------------ properties ---------------------------- *)

\* The calls of a trace that forward the event or answer the room.
Forwarding == {"handle_message", "_send_threaded_message", "send_message", "process_url"}
Made(calls, fns) == {i \in 1 .. Len(calls) : calls[i].fn \in fns}

\* The last step was on_message, up to its verdict, for an event whose
\* server_timestamp is an integer.
Dispatched == ran.op = "on_message" /\ ran.verdict \in {"raised", "discard", "own", "accept"}
Age == now - ran.ts.ms

\* The event passed every staleness check.
Passed == ran.verdict \in {"own", "accept"}

\* The handler ended at a staleness check, having forwarded nothing.
Discarded == ran.verdict = "discard" /\ Made(ran.calls, Forwarding) = {}

\* C1: an event whose timestamp is present and earlier than the startup time
\* is discarded, with no call of handle_message, send_message or process_url,
\* whatever the sync flag and the clock are.
C1_BeforeStartupDiscarded ==
  (Dispatched /\ ran.ts.attr = "int" /\ ran.ts.ms < BOT_STARTUP_TIME) => Discarded

C1_Witness ==
  /\ Dispatched /\ ran.ts = IntTs(BOT_STARTUP_TIME - 1) /\ Discarded
  /\ INITIAL_SYNC_COMPLETE /\ now > BOT_STARTUP_TIME

\* C2: before the ready signal, an event no older than the process is
\* discarded when it is more than 300 seconds old and passes the staleness
\* checks when it is at most 300 seconds old, 300 seconds included.
C2_SyncWindow ==
  (Dispatched /\ ran.ts.attr = "int" /\ ran.ts.ms >= BOT_STARTUP_TIME
     /\ ~INITIAL_SYNC_COMPLETE)
    => /\ Age > SyncWindowSeconds * MsPerSecond => Discarded
       /\ Age <= SyncWindowSeconds * MsPerSecond => Passed

C2_Witness ==
  /\ Dispatched /\ ran.ts.attr = "int" /\ ran.ts.ms >= BOT_STARTUP_TIME
  /\ ~INITIAL_SYNC_COMPLETE /\ Age = SyncWindowSeconds * MsPerSecond
  /\ ran.verdict = "accept"

\* C3: after the ready signal, an event no older than the process is
\* discarded when it is more than 3600 seconds old and passes the staleness
\* checks when it is at most 3600 seconds old, so also when it is between 301
\* and 3600 seconds old.
C3_FallbackWindow ==
  (Dispatched /\ ran.ts.attr = "int" /\ ran.ts.ms >= BOT_STARTUP_TIME
     /\ INITIAL_SYNC_COMPLETE)
    => /\ Age > FallbackWindowSeconds * MsPerSecond => Discarded
       /\ Age <= FallbackWindowSeconds * MsPerSecond => Passed

C3_Witness ==
  /\ Dispatched /\ ran.ts.attr = "int" /\ ran.ts.ms >= BOT_STARTUP_TIME
  /\ INITIAL_SYNC_COMPLETE /\ Age = SyncWindowSeconds * MsPerSecond + 1
  /\ ran.verdict = "accept"

\* C4: an event whose server_timestamp is absent, None or 0 is discarded: the
\* handler returns normally and has called neither handle_message, nor
\* send_message, nor process_url.
C4_NoTimestampDiscarded ==
  (Dispatched /\ (ran.ts.attr \in {"absent", "None"} \/ ran.ts.ms = 0)) => Discarded

\* The on_message handlers suspended at an await, and whether the last step
\* was the return of one.
Running == {h \in Suspended : h.op = "on_message"}
Returned == ran.op = "on_message" /\ ran.verdict = "done"

\* The first word of s that starts with http:// or https://, said without
\* split(): s[a .. b] is a word when it holds no whitespace and whitespace or
\* an end of s is at either side of it.
WordAt(s, a, b) ==
  /\ a <= b
  /\ \A k \in a .. b : s[k] \notin Whitespace
  /\ a = 1 \/ s[a - 1] \in Whitespace
  /\ b = Len(s) \/ s[b + 1] \in Whitespace
PrefixAt(s, a, p) ==
  /\ a + Len(p) - 1 <= Len(s)
  /\ \A k \in 1 .. Len(p) : s[a + k - 1] = p[k]
UrlWords(s) ==
  {w \in (1 .. Len(s)) \X (1 .. Len(s)) :
     /\ WordAt(s, w[1], w[2])
     /\ \/ PrefixAt(s, w[1], <<104, 116, 116, 112, 58, 47, 47>>)
        \/ PrefixAt(s, w[1], <<104, 116, 116, 112, 115, 58, 47, 47>>)}
FirstUrlWord(s) ==
  IF UrlWords(s) = {} THEN <<>>
  ELSE LET w == CHOOSE w \in UrlWords(s) : \A v \in UrlWords(s) : w[1] <= v[1]
       IN SubSeq(s, w[1], w[2])
expected_url == [b \in 1 .. Len(Bodies) |-> FirstUrlWord(Bodies[b])]

\* C5, as claimed: an event that passed the staleness checks is forwarded to
\* exactly one of handle_message and process_url.
C5_ExactlyOneCollaborator ==
  (ran.op = "on_message" /\ ran.verdict \in {"own", "done"})
    => Cardinality(Made(ran.calls, {"handle_message", "process_url"})) = 1

\* C5, amended: an event that passed the staleness checks and was not sent
\* by the bot is forwarded to handle_message exactly once and, besides, to
\* process_url once exactly when its body holds a word starting with http://
\* or https://; an event sent by the bot is forwarded to neither.
C5_ChatAndUrl ==
  /\ (ran.op = "on_message" /\ ran.verdict = "own")
       => Made(ran.calls, {"handle_message", "process_url"}) = {}
  /\ Returned
       => /\ Cardinality(Made(ran.calls, {"handle_message"})) = 1
          /\ Cardinality(Made(ran.calls, {"process_url"})) =
               IF expected_url[ran.body] = <<>> THEN 0 ELSE 1
  /\ \A h \in Running :
       /\ Cardinality(Made(h.calls, {"handle_message"})) = 1
       /\ Cardinality(Made(h.calls, {"process_url"})) <= 1

C5_Witness ==
  /\ Returned
  /\ Cardinality(Made(ran.calls, {"handle_message"})) = 1
  /\ Cardinality(Made(ran.calls, {"process_url"})) = 1

\* C6: when the threaded send of a structured reply reports failure, the
\* next call is a send_message of the same text to the same room, and it is
\* the only send_message of that event.
FallbackOnce(room, calls) ==
  \A i \in Made(calls, {"_send_threaded_message"}) :
    calls[i].res = "False"
      => /\ i < Len(calls)
         /\ calls[i + 1].fn = "send_message"
         /\ calls[i + 1].text = calls[i].text
         /\ calls[i + 1].room = calls[i].room
         /\ calls[i + 1].room = room
         /\ Cardinality(Made(calls, {"send_message"})) = 1

C6_FallbackOnce ==
  /\ \A h \in Running : FallbackOnce(h.room, h.calls)
  /\ ran.op = "on_message" => FallbackOnce(ran.room, ran.calls)

C6_Witness ==
  /\ Returned
  /\ \E i \in Made(ran.calls, {"_send_threaded_message"}) :
       /\ ran.calls[i].res = "False"
       /\ ran.calls[i + 1].fn = "send_message"
       /\ ran.calls[i + 1].res = "ok"

\* C7: an exception of handle_message, of the threaded send, of send_message
\* or of process_url never leaves on_message; after one in the autonomous
\* chat step the handler still scans the body and forwards the URL it finds;
\* and the return of a handler that met a failure changes nothing but that
\* handler, so later events find the process as a success would leave it.
ChatFns == {"handle_message", "_send_threaded_message", "send_message"}
Raised(calls) == {i \in 1 .. Len(calls) : calls[i].res = "raised"}
ChatFailed(calls) == Raised(calls) \cap Made(calls, ChatFns) # {}

C7_Caught ==
  /\ (ran.op = "on_message" /\ ran.verdict = "raised") => Raised(ran.calls) = {}
  /\ \A h \in Running :
       ChatFailed(h.calls)
         => /\ h.pc = "process_url"
            /\ h.calls[Len(h.calls)].fn = "process_url"
            /\ h.calls[Len(h.calls)].url = expected_url[h.body]
  /\ (Returned /\ ChatFailed(ran.calls) /\ expected_url[ran.body] # <<>>)
       => \E i \in Made(ran.calls, {"process_url"}) :
            ran.calls[i].url = expected_url[ran.body]

C7_Frame ==
  (ran'.op = "on_message" /\ ran'.verdict = "done" /\ Raised(ran'.calls) # {})
    => /\ UNCHANGED <<now, BOT_STARTUP_TIME, INITIAL_SYNC_COMPLETE,
                      arxiv_auto_poster, spontaneous, maintenance>>
       /\ \E h \in Suspended : handlers' = handlers (-) SetToBag({h})

C7_FailuresSwallowed == []C7_Caught /\ [][C7_Frame]_vars

C7_Witness ==
  /\ Returned
  /\ ChatFailed(ran.calls)
  /\ \E i \in Made(ran.calls, {"process_url"}) : ran.calls[i].res = "raised"

\* C8: INITIAL_SYNC_COMPLETE is false at the start, true once a ready signal
\* has been handled, and no step of any handler makes it false again.
C8_SyncFlagStaysSet ==
  /\ ~INITIAL_SYNC_COMPLETE
  /\ [][/\ INITIAL_SYNC_COMPLETE => INITIAL_SYNC_COMPLETE'
        /\ spontaneous' # spontaneous => INITIAL_SYNC_COMPLETE'
        /\ INITIAL_SYNC_COMPLETE' # INITIAL_SYNC_COMPLETE
             => spontaneous = 0 /\ spontaneous' = 1]_vars

C8_Witness ==
  /\ INITIAL_SYNC_COMPLETE
  /\ spontaneous >= 2
  /\ Returned

\* C9: a maintenance cycle that raises does not end the loop and is not
\* retried at once: the task sleeps, and every cycle that has ended, by
\* raising or not, is followed by a sleep and then by another cycle.
InCycle(i) == i <= Len(maintenance) /\ maintenance[i] = "cycle"
Sleeping(i) == i <= Len(maintenance) /\ maintenance[i] = "sleep"
CycleFailed(i) ==
  ran.op = "arxiv_maintenance_task" /\ ran.verdict = "raised" /\ ran.body = i

C9_LoopSurvivesFailure ==
  \A i \in Tasks :
    /\ [](CycleFailed(i) => Sleeping(i))
    /\ CycleFailed(i) ~> InCycle(i)
    /\ Sleeping(i) ~> InCycle(i)

C9_Witness ==
  /\ CycleFailed(2)
  /\ Sleeping(2)
  /\ InCycle(1)

\* C10: the URL given to process_url is the first word of the body that
\* starts with http:// or https://, as for the body "check this out
\* https://example.com/paper thanks"; for a body without such a word
\* process_url is not called and no bot action is logged.
\* "check this out https://example.com/paper thanks"
ExampleBody ==
  <<99, 104, 101, 99, 107, 32, 116, 104, 105, 115, 32, 111, 117, 116, 32,
    104, 116, 116, 112, 115, 58, 47, 47, 101, 120, 97, 109, 112, 108, 101,
    46, 99, 111, 109, 47, 112, 97, 112, 101, 114, 32, 116, 104, 97, 110, 107,
    115>>
\* "https://example.com/paper"
ExampleUrl ==
  <<104, 116, 116, 112, 115, 58, 47, 47, 101, 120, 97, 109, 112, 108, 101,
    46, 99, 111, 109, 47, 112, 97, 112, 101, 114>>
example_first_url == first_url(ExampleBody)

UrlForwarded(body, calls) ==
  /\ \A i \in Made(calls, {"process_url"}) :
       expected_url[body] # <<>> /\ calls[i].url = expected_url[body]
  /\ expected_url[body] = <<>>
       => Made(calls, {"process_url", "log_bot_action"}) = {}

C10_FirstUrlForwarded ==
  /\ \A h \in Running : UrlForwarded(h.body, h.calls)
  /\ Returned
       => /\ UrlForwarded(ran.body, ran.calls)
          /\ expected_url[ran.body] # <<>>
               => Made(ran.calls, {"process_url"}) # {}
  /\ example_first_url = ExampleUrl

C10_Witness ==
  /\ Returned
  /\ Cardinality(UrlWords(Bodies[ran.body])) > 1
  /\ \E i \in Made(ran.calls, {"process_url"}) :
       ran.calls[i].url = expected_url[ran.body] /\ ran.calls[i].res = "ok"

\* The step in which handle_message returned, and the response it returned.
Answered == ran.op = "on_message" /\ ran.response # NoResponse
EmptyResponse(resp) ==
  \/ resp.type = "None"
  \/ resp.type = "str" /\ resp.text = ""
  \/ resp.type = "dict" /\ resp.text \in {"None", ""}

\* Nothing is sent to the room in a trace, and nothing is sent once
\* process_url has been called.
Sends == {"_send_threaded_message", "send_message"}
NoSendAfterUrl(calls) ==
  \A i \in Made(calls, {"process_url"}), j \in Made(calls, Sends) : j < i

\* C11: when handle_message returns None, an empty text, or a dict whose text
\* is absent or empty, with or without thread_info, on_message makes no
\* threaded and no plain send for the event: in the same step it returns, for
\* a body without a URL, or awaits process_url with the first URL of the body.
C11_NoTextNoSend ==
  /\ (Answered /\ EmptyResponse(ran.response))
       => /\ Made(ran.calls, Sends) = {}
          /\ IF expected_url[ran.body] = <<>>
             THEN ran.verdict = "done" /\ Made(ran.calls, {"process_url"}) = {}
             ELSE /\ ran.verdict = "answered"
                  /\ ran.calls[Len(ran.calls)].fn = "process_url"
                  /\ ran.calls[Len(ran.calls)].url = expected_url[ran.body]
                  /\ \E h \in Running : h.pc = "process_url" /\ h.calls = ran.calls
  /\ \A h \in Running : NoSendAfterUrl(h.calls)
  /\ ran.op = "on_message" => NoSendAfterUrl(ran.calls)

C11_Witness ==
  /\ Answered
  /\ ran.response = [type |-> "dict", text |-> "", thread_info |-> EventId, len |-> 2]
  /\ ran.verdict = "answered"
  /\ \E h \in Running : h.pc = "process_url" /\ h.calls = ran.calls

\* C12: a command_error event that has been handled has made one call of
\* ctx.respond, which sent the apology to the room of the command, and one
\* record of a command error in the chat log of that room.
C12_ApologyAndRecord ==
  (ran.op = "on_command_error" /\ ran.verdict \in {"done", "raised"})
    => /\ \E i \in 1 .. Len(ran.calls) :
            /\ Made(ran.calls, {"respond"}) = {i}
            /\ ran.calls[i].room = ran.room
            /\ ran.calls[i].text = "An error occurred"
            /\ ran.calls[i].res = "ok"
       /\ \E j \in 1 .. Len(ran.calls) :
            /\ Made(ran.calls, {"log_bot_action"}) = {j}
            /\ ran.calls[j].room = ran.room
            /\ ran.calls[j].text = "Command error"

\* C13: in the calls of one event, process_url comes after handle_message
\* and after every send of the response, each of which has returned or
\* raised by then, a failed threaded send having had its fallback send; a
\* handler that awaits handle_message or a send has not called process_url.
ChatFirst(calls) ==
  \A i \in Made(calls, {"process_url"}) :
    /\ \E j \in Made(calls, {"handle_message"}) : j < i
    /\ \A j \in Made(calls, ChatFns) :
         /\ j < i
         /\ calls[j].res \in {"ok", "True", "False", "raised"}
         /\ calls[j].res = "False"
              => j + 1 < i /\ calls[j + 1].fn = "send_message"

C13_ChatBeforeUrl ==
  /\ \A h \in Running :
       /\ ChatFirst(h.calls)
       /\ h.pc \in {"handle_message", "send_threaded", "send_message"}
            => Made(h.calls, {"process_url"}) = {}
  /\ ran.op = "on_message" => ChatFirst(ran.calls)

C13_Witness ==
  \E h \in Running :
    /\ h.pc = "process_url"
    /\ \E j \in Made(h.calls, {"_send_threaded_message"}) :
         /\ h.calls[j].res = "False"
         /\ h.calls[j + 1].fn = "send_message"
         /\ h.calls[j + 1].res = "ok"
         /\ h.calls[Len(h.calls)].fn = "process_url"
         /\ h.calls[Len(h.calls)].res = "pending"

\* The maintenance tasks that are in their loop, in a cycle or asleep.
MaintenanceRunning ==
  {i \in 1 .. Len(maintenance) : maintenance[i] \in {"cycle", "sleep"}}

\* C14: whatever the number of ready signals handled, at most one
\* periodic_spontaneous_check task has been started and at most one
\* arxiv_maintenance_task is in its loop.
C14_OneTaskOfEachKind ==
  /\ spontaneous <= 1
  /\ Cardinality(MaintenanceRunning) <= 1

\* C15: for a message whose sender is the bot's own user id, on_message
\* calls neither handle_message, nor a send, nor process_url, also when the
\* message passes every staleness check and its body holds a URL: no handler
\* of such a message is ever suspended at an await.
C15_OwnMessagesIgnored ==
  /\ (ran.op = "on_message" /\ ran.sender = "@bot:hs")
       => /\ Made(ran.calls, Forwarding) = {}
          /\ ran.verdict \in {"raised", "discard", "own"}
  /\ \A h \in Running : h.sender # "@bot:hs"

C15_Witness ==
  /\ Dispatched
  /\ ran.sender = "@bot:hs"
  /\ ran.verdict = "own"
  /\ ran.ts = IntTs(now)
  /\ INITIAL_SYNC_COMPLETE
  /\ expected_url[ran.body] # <<>>
  /\ Made(ran.calls, Forwarding) = {}

\* C16: the calls of one event hold at most one threaded send and at most
\* one send_message, and no send_message beside a threaded send that
\* reported success; and when handle_message returns a non-empty string, the
\* handler awaits, in the same step, a send_message of that string to the
\* room of the event, which is its only send.
OneResponse(calls) ==
  /\ Cardinality(Made(calls, {"_send_threaded_message"})) <= 1
  /\ Cardinality(Made(calls, {"send_message"})) <= 1
  /\ \A i \in Made(calls, {"_send_threaded_message"}) :
       calls[i].res = "True" => Made(calls, {"send_message"}) = {}

C16_AtMostOneResponse ==
  /\ \A h \in Running : OneResponse(h.calls)
  /\ ran.op = "on_message" => OneResponse(ran.calls)
  /\ (Answered /\ ran.response.type = "str" /\ ran.response.text # "")
       => /\ Made(ran.calls, Sends) = {Len(ran.calls)}
          /\ ran.calls[Len(ran.calls)] =
               Call("send_message", ran.room, ran.response.text, "", <<>>, "pending")
          /\ \E h \in Running : h.pc = "send_message" /\ h.calls = ran.calls

C16_Witness ==
  /\ Returned
  /\ \E i \in Made(ran.calls, {"_send_threaded_message"}) : ran.calls[i].res = "True"
  /\ Made(ran.calls, {"send_message"}) = {}
  /\ \E i \in Made(ran.calls, {"process_url"}) : ran.calls[i].res = "ok"

\* The handlers that a step has newly suspended in handle_message.
Admitted ==
  {h \in BagToSet(handlers') :
     h.pc = "handle_message" /\ CopiesIn(h, handlers') > CopiesIn(h, handlers)}

\* The outcome of the staleness checks for the values of the clock, of the
\* startup time and of the sync flag in one state.
Stale(ts) ==
  \/ ts.attr # "int" \/ ts.ms = 0
  \/ ts.ms < BOT_STARTUP_TIME
  \/ now - ts.ms > (IF INITIAL_SYNC_COMPLETE THEN 3600 ELSE 300) * 1000

\* C17: the step that dispatches a message event takes its decision from the
\* clock, the startup time and the sync flag of the state it starts in,
\* leaves them as they are, and suspends the handler in handle_message in
\* that same step exactly when it accepts the event; no other step suspends
\* a handler there; and the step that handles a ready signal leaves every
\* suspended handler where it is, with the calls it has made.
C17_Dispatch ==
  /\ (ran'.op = "on_message" /\ ran'.verdict \in {"discard", "own", "accept"})
       => /\ ran'.verdict = "discard" <=> Stale(ran'.ts)
          /\ UNCHANGED <<now, BOT_STARTUP_TIME, INITIAL_SYNC_COMPLETE>>
          /\ IF ran'.verdict = "accept"
             THEN \E h \in Admitted :
                    /\ handlers' = handlers (+) SetToBag({h})
                    /\ h.room = ran'.room /\ h.sender = ran'.sender
                    /\ h.body = ran'.body /\ h.calls = ran'.calls
             ELSE handlers' = handlers
  /\ Admitted # {} => ran'.op = "on_message" /\ ran'.verdict = "accept"
  /\ ran'.op = "on_ready" => handlers' = handlers

C17_AtomicDecision == [][C17_Dispatch]_vars

C17_Witness ==
  /\ ran.op = "on_ready"
  /\ INITIAL_SYNC_COMPLETE
  /\ spontaneous = 1
  /\ \E h \in Running : h.pc = "process_url"

\* The step is one of a callback other than on_ready, or of a maintenance
\* task: a dispatch, a resumption, a return or an end by raising.
OtherHandlerStep ==
  \/ ran'.op \in {"on_message", "on_command", "on_command_error",
                  "on_room_member", "arxiv_maintenance_task"}
  \/ handlers' # handlers
  \/ maintenance' # maintenance /\ ran'.op # "on_ready"

\* C18: BOT_STARTUP_TIME keeps the value it has at process start; a step of
\* on_message, on_command, on_command_error, on_room_member or of the
\* maintenance loop changes neither BOT_STARTUP_TIME nor
\* INITIAL_SYNC_COMPLETE, also when it ends in a discard or in a caught
\* failure; INITIAL_SYNC_COMPLETE changes in steps of on_ready only, from
\* false to true, so at most once.
C18_Step ==
  /\ BOT_STARTUP_TIME' = BOT_STARTUP_TIME
  /\ OtherHandlerStep => INITIAL_SYNC_COMPLETE' = INITIAL_SYNC_COMPLETE
  /\ INITIAL_SYNC_COMPLETE' # INITIAL_SYNC_COMPLETE
       => /\ ran'.op = "on_ready"
          /\ ~INITIAL_SYNC_COMPLETE /\ INITIAL_SYNC_COMPLETE'

C18_GlobalsFrame == (BOT_STARTUP_TIME = 2 * 3600 * 1000) /\ [][C18_Step]_vars

C18_Witness ==
  /\ Returned
  /\ \E i \in Made(ran.calls, {"process_url"}) : ran.calls[i].res = "raised"
  /\ INITIAL_SYNC_COMPLETE
  /\ BOT_STARTUP_TIME = 2 * 3600 * 1000
  /\ now > BOT_STARTUP_TIME
====
